---- MODULE Spec2Model ----
(***************************************************************************)
(* A model of mol_env.py: the graph-edit enumerator (get_valid_actions,    *)
(* _atom_addition, _bond_addition, _bond_removal) and the Molecule MDP     *)
(* (initialize, get_valid_actions, step).                                  *)
(*                                                                         *)
(* A molecule is a record [lab, bonds]: lab is the sequence of atom        *)
(* labels (atom index i of the model is RDKit index i-1) and bonds is a    *)
(* set of records [a, b, type, kek] with a < b, type the RDKit bond type   *)
(* and kek the order the bond has in the Kekule form.  A serialized state  *)
(* (a SMILES string) is modelled by the canonically relabelled graph that  *)
(* the string denotes; the empty graph stands for None / "".               *)
(***************************************************************************)
EXTENDS Integers, Sequences, FiniteSets, TLC

\* ------------------------------------------------------------- bounds
\* largest number of atoms of a state the environment commits or is asked about
MaxAtoms == 2
\* largest max_steps of an environment
MaxSteps == 2
\* longest chain / largest ring among the enumerator's inputs
MaxChain == 5

\* ------------------------------------------------- RDKit bond types
NoBond == 0
SINGLE == 1
DOUBLE == 2
TRIPLE == 3
AROMATIC == 12

\* ------------------------------------------------------ small helpers
Max(S) == CHOOSE x \in S : \A y \in S : y <= x
Min(S) == CHOOSE x \in S : \A y \in S : x <= y

RECURSIVE SumOver(_, _)
SumOver(S, f) ==
  IF S = {} THEN 0
  ELSE LET x == CHOOSE y \in S : TRUE IN f[x] + SumOver(S \ {x}, f)

Range(s) == {s[i] : i \in DOMAIN s}

\* the function f written out as a table
Table(f) == f @@ <<>>

\* ------------------------------------------------ the valence table
\* the element labels of the model and the valences RDKit's periodic table
\* lists for them
Labels == {"C", "O", "S", "Cl"}
ValenceList(l) ==
  CASE l = "C" -> {4}
    [] l = "O" -> {2}
    [] l = "S" -> {2, 4, 6}
    [] l = "Cl" -> {1}
    [] OTHER -> {}

\* mol_utility.atom_valences: the maximum valence of an atom type
atom_valences(l) == Max(ValenceList(l))

\* rank of a label in the alphabetical order of the labels
LabelCode(l) ==
  CASE l = "C" -> 1
    [] l = "Cl" -> 2
    [] l = "O" -> 3
    [] l = "S" -> 4
    [] OTHER -> 5

\* ----------------------------------------------------- molecule graphs
EmptyMol == [lab |-> <<>>, bonds |-> {}]
NumAtoms(m) == Len(m.lab)
Atoms(m) == 1..Len(m.lab)
Bond(a, b, t) ==
  [a |-> IF a < b THEN a ELSE b, b |-> IF a < b THEN b ELSE a, type |-> t, kek |-> t]

BondsAt(m, a) == {e \in m.bonds : e.a = a \/ e.b = a}
Other(e, a) == IF e.a = a THEN e.b ELSE e.a
Neighbours(m, a) == {Other(e, a) : e \in BondsAt(m, a)}
BondSum(m, a) == SumOver(BondsAt(m, a), [e \in BondsAt(m, a) |-> e.kek])

\* Mol.GetBondBetweenAtoms: the set holding the bond, empty for None
GetBondBetweenAtoms(m, a1, a2) ==
  {e \in m.bonds : e.a = Min({a1, a2}) /\ e.b = Max({a1, a2})}

\* Atom.GetNumImplicitHs: the smallest listed valence that fits, minus the bonds
GetNumImplicitHs(m, a) ==
  LET fit == {v \in ValenceList(m.lab[a]) : v >= BondSum(m, a)}
  IN  IF fit = {} THEN 0 ELSE Min(fit) - BondSum(m, a)

\* atoms reachable from the set S of atoms
RECURSIVE Reach(_, _)
Reach(m, S) ==
  LET T == S \cup UNION {Neighbours(m, a) : a \in S}
  IN  IF T = S THEN S ELSE Reach(m, T)

\* Atom.IsInRing: a is on a cycle iff some bond at a can be removed without
\* disconnecting its ends
WithoutBond(m, e) == [m EXCEPT !.bonds = @ \ {e}]
IsInRing(m, a) ==
  \E e \in BondsAt(m, a) : Other(e, a) \in Reach(WithoutBond(m, e), {a})

\* rdmolops.GetShortestPath: the number of atoms on a shortest path from a1 to
\* a2, 0 when there is none (the length of the tuple RDKit returns)
RECURSIVE PathAtoms(_, _, _, _)
PathAtoms(m, S, a2, k) ==
  IF a2 \in S THEN k
  ELSE LET T == S \cup UNION {Neighbours(m, a) : a \in S}
       IN  IF T = S THEN 0 ELSE PathAtoms(m, T, a2, k + 1)
GetShortestPathLen(m, a1, a2) == PathAtoms(m, {a1}, a2, 1)

\* ------------------------------------------------------ the Chemical Oracle
\* Chem.Kekulize(mol, clearAromaticFlags=True): every aromatic bond becomes the
\* single or double bond of the Kekule form
Kekulize(m) == [m EXCEPT !.bonds = {[e EXCEPT !.type = e.kek] : e \in @}]

\* the bonds that lie on some cycle
RingBonds(m) == {e \in m.bonds : e.b \in Reach(WithoutBond(m, e), {e.a})}

\* S is the bond set of one simple cycle
AtomsOf(S) == {e.a : e \in S} \cup {e.b : e \in S}
IsCycle(S) ==
  /\ S # {}
  /\ \A a \in AtomsOf(S) : Cardinality({e \in S : e.a = a \/ e.b = a}) = 2
  /\ LET a0 == CHOOSE a \in AtomsOf(S) : TRUE
     IN  Reach([lab |-> <<>>, bonds |-> S], {a0}) = AtomsOf(S)

\* pi electrons an atom gives to the cycle S (Hueckel count); -100 when the atom
\* cannot be part of an aromatic ring
PiElectrons(m, S, a) ==
  LET inS == {e \in S : e.a = a \/ e.b = a}
  IN  IF \E e \in inS : e.kek = TRIPLE THEN -100
      ELSE IF \E e \in inS : e.kek = DOUBLE THEN 1
      ELSE IF \E e \in BondsAt(m, a) : e.kek # SINGLE THEN -100
      ELSE IF m.lab[a] \in {"O", "S"} /\ BondSum(m, a) = 2 THEN 2
      ELSE -100

\* a ring is aromatic when every atom of it gives pi electrons and they number
\* 4n + 2
IsAromaticCycle(m, S) ==
  /\ IsCycle(S)
  /\ LET as == AtomsOf(S)
         n == SumOver(as, [a \in as |-> PiElectrons(m, S, a)])
     IN  n > 0 /\ n % 4 = 2

\* aromaticity perception of SanitizeMol / MolFromSmiles
PerceiveAromaticity(m) ==
  LET k == Kekulize(m)
      ring == RingBonds(k)
      arom == UNION {S \in SUBSET ring : IsAromaticCycle(k, S)}
  IN  IF ring = {} THEN k
      ELSE [k EXCEPT !.bonds =
              {IF e \in arom THEN [e EXCEPT !.type = AROMATIC] ELSE e : e \in @}]

\* the valence check of SanitizeMol: every atom's bonds fit a listed valence
ValenceOk(m) ==
  \A a \in Atoms(m) :
    /\ ValenceList(m.lab[a]) # {}
    /\ BondSum(m, a) <= Max(ValenceList(m.lab[a]))

\* Chem.SanitizeMol(mol, catchErrors=True): nonzero (TRUE) when sanitization fails
SanitizeFails(m) == ~ValenceOk(m)
\* the molecule SanitizeMol leaves behind on success
Sanitized(m) == PerceiveAromaticity(m)

\* ---------------------------------------------------- canonical SMILES
RECURSIVE Pow(_, _)
Pow(b, k) == IF k = 0 THEN 1 ELSE b * Pow(b, k - 1)

BondCode(e) == IF e.type = AROMATIC THEN 3 + e.kek ELSE e.type

\* an invariant of an atom: its label and bonds, then those of its neighbours
AtomSig(m, a) == LabelCode(m.lab[a]) * 100
                 + SumOver(BondsAt(m, a), [e \in BondsAt(m, a) |-> BondCode(e)])
AtomSigs(m) ==
  LET s0 == Table([a \in Atoms(m) |-> AtomSig(m, a)])
  IN  Table([a \in Atoms(m) |->
               s0[a] * 1000 + SumOver(Neighbours(m, a),
                                      [b \in Neighbours(m, a) |-> s0[b]])])

\* the orders (new index -> old index) that list the atoms by invariant
RECURSIVE SigOrders(_, _, _)
SigOrders(sig, rem, prefix) ==
  IF rem = {} THEN {prefix}
  ELSE LET lo == Min({sig[a] : a \in rem})
       IN  UNION {SigOrders(sig, rem \ {a}, Append(prefix, a)) :
                    a \in {x \in rem : sig[x] = lo}}

\* row r of the adjacency matrix of m listed in the order ord, as a number
CodeBetween(m, a, b) ==
  LET found == GetBondBetweenAtoms(m, a, b)
  IN  IF found = {} THEN 0 ELSE BondCode(CHOOSE e \in found : TRUE)
RowKey(m, ord, r) ==
  LET n == NumAtoms(m)
  IN  SumOver((r + 1)..n,
              [j \in (r + 1)..n |-> CodeBetween(m, ord[r], ord[j]) * Pow(6, n - j)])

RECURSIVE CanonOrders(_, _, _)
CanonOrders(m, P, r) ==
  IF r >= NumAtoms(m) \/ Cardinality(P) <= 1 THEN P
  ELSE LET key == Table([ord \in P |-> RowKey(m, ord, r)])
           best == Min({key[ord] : ord \in P})
       IN  CanonOrders(m, {ord \in P : key[ord] = best}, r + 1)

Relabel(m, ord) ==
  LET pos == Table([a \in Atoms(m) |-> CHOOSE q \in Atoms(m) : ord[q] = a])
  IN  [lab |-> [q \in 1..NumAtoms(m) |-> m.lab[ord[q]]],
       bonds |-> {[a |-> Min({pos[e.a], pos[e.b]}), b |-> Max({pos[e.a], pos[e.b]}),
                   type |-> e.type, kek |-> e.kek] : e \in m.bonds}]

\* the canonical relabelling of a graph: atoms by invariant, then the least
\* adjacency rows
Canon(m) ==
  IF NumAtoms(m) <= 1 THEN m
  ELSE Relabel(m, CHOOSE ord \in CanonOrders(m, SigOrders(AtomSigs(m), Atoms(m), <<>>), 1) :
                    TRUE)

\* Chem.MolToSmiles: the canonical string of the graph
MolToSmiles(m) == Canon(m)

\* Chem.MolFromSmiles: the set holding the parsed, sanitized graph; empty (None)
\* when the string names no element or breaks a valence
MolFromSmiles(s) == IF ValenceOk(s) THEN {PerceiveAromaticity(s)} ELSE {}

\* length of the SMILES string of a connected fragment: the atom symbols, one
\* character per double or triple bond, two ring-closure digits per ring and
\* two parentheses per branch
LabelLen(l) == Len(l)
SmilesLen(f) ==
  LET n == NumAtoms(f)
      multi == {e \in f.bonds : e.type \in {DOUBLE, TRIPLE}}
      rings == IF n = 0 THEN 0 ELSE Cardinality(f.bonds) - n + 1
      deg == Table([a \in 1..n |-> Cardinality(BondsAt(f, a))])
  IN  SumOver(1..n, [a \in 1..n |-> LabelLen(f.lab[a])])
      + Cardinality(multi) + 2 * rings
      + 2 * SumOver(1..n, [a \in 1..n |-> IF deg[a] > 2 THEN deg[a] - 2 ELSE 0])

\* the subgraph on the atom set S, its atoms renumbered in order
SubMol(m, S) ==
  LET pos == Table([a \in S |-> Cardinality({x \in S : x <= a})])
  IN  [lab |-> [q \in 1..Cardinality(S) |-> m.lab[CHOOSE a \in S : pos[a] = q]],
       bonds |-> {[e EXCEPT !.a = pos[e.a], !.b = pos[e.b]] :
                    e \in {x \in m.bonds : x.a \in S}}]

\* smiles.split('.'): the connected fragments of the graph
Fragments(m) == {SubMol(m, Reach(m, {a})) : a \in Atoms(m)}

\* ------------------------------------------------------- the enumerator
\* a call either returns a value or raises
Ok(v) == [err |-> "", val |-> v]
Raise(e) == [err |-> e, val |-> {}]

\* the SMILES string of a single atom of an atom type
AtomState(l) == [lab |-> <<l>>, bonds |-> {}]

\* bond_orders of _bond_addition and _bond_removal: list index -> bond type
bond_orders == (0 :> NoBond) @@ (1 :> SINGLE) @@ (2 :> DOUBLE) @@ (3 :> TRIPLE)
bond_orders_index(t) == CHOOSE i \in DOMAIN bond_orders : bond_orders[i] = t

\* allowed_ring_sizes = None
NoRingSizes == {-1}

AddAtom(m, element) == [m EXCEPT !.lab = Append(@, element)]
AddBond(m, a1, a2, t) == [m EXCEPT !.bonds = @ \cup {Bond(a1, a2, t)}]
ReplaceBond(m, e, t) == [m EXCEPT !.bonds = (@ \ {x \in @ : x.a = e.a /\ x.b = e.b})
                                              \cup {Bond(e.a, e.b, t)}]
RemoveBond(m, a1, a2) == [m EXCEPT !.bonds = {x \in @ : ~(x.a = a1 /\ x.b = a2)}]

\* atom_valences of get_valid_actions
atom_valences_map(atom_types) == Table([t \in atom_types |-> atom_valences(t)])

\* the last level of atoms_with_free_valence: range(1, max valence) stops below it
FreeValenceLevels(atom_types) ==
  1..(Max({atom_valences_map(atom_types)[t] : t \in atom_types}) - 1)

\* atoms_with_free_valence of get_valid_actions
atoms_with_free_valence(mol, atom_types) ==
  Table([i \in FreeValenceLevels(atom_types) |->
           {a \in Atoms(mol) : GetNumImplicitHs(mol, a) >= i}])

\* the keys of bond_orders in _atom_addition
AtomAdditionLevels == {1, 2, 3}

\* the candidates of _atom_addition that pass sanitization, for the levels the
\* free-valence map has
AtomAdditionAccepted(state, atom_types, fv) ==
  LET valences == atom_valences_map(atom_types)
      cand == {[i |-> i, atom |-> a, element |-> el,
                new_state |-> AddBond(AddAtom(state, el), a, NumAtoms(state) + 1,
                                      bond_orders[i])] :
                 <<i, a, el>> \in {x \in (AtomAdditionLevels \cap DOMAIN fv)
                                           \X Atoms(state) \X atom_types :
                                     /\ x[2] \in fv[x[1]]
                                     /\ valences[x[3]] >= x[1]}}
  IN  {[c EXCEPT !.new_state = Sanitized(@)] :
         c \in {x \in cand : ~SanitizeFails(x.new_state)}}

_atom_addition(state, atom_types, fv) ==
  IF \E i \in AtomAdditionLevels : i \notin DOMAIN fv THEN Raise("KeyError")
  ELSE Ok({MolToSmiles(c.new_state) : c \in AtomAdditionAccepted(state, atom_types, fv)})

\* unordered pairs of a list of atoms (itertools.combinations(atoms, 2))
Combinations2(atoms) == {p \in atoms \X atoms : p[1] < p[2]}

\* ReadBondType reading the bond of the kekulized copy instead
ReadBondTypeKekulized(bond) == bond.kek

\* the type _bond_addition and _bond_removal read for an existing bond: the bond
\* comes from Chem.Mol(state), a copy of the state that was not kekulized
ReadBondType(bond) == bond.type

\* RingRuleSkips with the path measured in bonds instead of atoms
RingRuleSkipsCountingBonds(state, atom1, atom2, allowed_ring_sizes, allow_bonds_between_rings) ==
  \/ ~allow_bonds_between_rings /\ IsInRing(state, atom1) /\ IsInRing(state, atom2)
  \/ /\ allowed_ring_sizes # NoRingSizes
     /\ GetShortestPathLen(state, atom1, atom2) - 1 \notin allowed_ring_sizes

\* the two elif tests of _bond_addition for a pair without a bond: both atoms in
\* a ring while bonds between rings are not allowed, or a shortest path whose
\* number of atoms is not an allowed ring size
RingRuleSkips(state, atom1, atom2, allowed_ring_sizes, allow_bonds_between_rings) ==
  \/ ~allow_bonds_between_rings /\ IsInRing(state, atom1) /\ IsInRing(state, atom2)
  \/ /\ allowed_ring_sizes # NoRingSizes
     /\ GetShortestPathLen(state, atom1, atom2) \notin allowed_ring_sizes

\* one pass of the loop body of _bond_addition for the pair (atom1, atom2) at
\* the level valence: "skip" (continue), "raise" (IndexError) or "edit" with the
\* edited graph before sanitization
BondAdditionEdit(state, valence, atom1, atom2, allowed_ring_sizes, allow_bonds_between_rings) ==
  LET found == GetBondBetweenAtoms(state, atom1, atom2)
      new_state == Kekulize(state)
      skip == [kind |-> "skip", existing |-> found # {}, new_state |-> state]
  IN  IF found # {}
      THEN LET bond == CHOOSE e \in found : TRUE
           IN  IF ReadBondType(bond) \notin Range(bond_orders) THEN skip
               ELSE LET bond_order == bond_orders_index(ReadBondType(bond)) + valence
                    IN  IF bond_order < Cardinality(DOMAIN bond_orders)
                        THEN [kind |-> "edit", existing |-> TRUE,
                              new_state |-> ReplaceBond(new_state, bond,
                                                        bond_orders[bond_order])]
                        ELSE skip
      ELSE IF RingRuleSkips(state, atom1, atom2, allowed_ring_sizes,
                            allow_bonds_between_rings) THEN skip
      ELSE IF valence \notin DOMAIN bond_orders
           THEN [kind |-> "raise", existing |-> FALSE, new_state |-> state]
      ELSE [kind |-> "edit", existing |-> FALSE,
            new_state |-> AddBond(new_state, atom1, atom2, bond_orders[valence])]

\* every pass of the two loops of _bond_addition
BondAdditionPasses(state, fv, allowed_ring_sizes, allow_bonds_between_rings) ==
  {[valence |-> x[1], atom1 |-> x[2][1], atom2 |-> x[2][2],
    edit |-> BondAdditionEdit(state, x[1], x[2][1], x[2][2], allowed_ring_sizes,
                              allow_bonds_between_rings)] :
     x \in UNION {{v} \X Combinations2(fv[v]) : v \in DOMAIN fv}}

\* the passes whose edit passes sanitization, with the sanitized graph
AcceptedPasses(passes) ==
  {[valence |-> c.valence, atom1 |-> c.atom1, atom2 |-> c.atom2,
    existing |-> c.edit.existing, new_state |-> Sanitized(c.edit.new_state)] :
     c \in {x \in passes : x.edit.kind = "edit" /\ ~SanitizeFails(x.edit.new_state)}}
BondAdditionAccepted(state, fv, allowed_ring_sizes, allow_bonds_between_rings) ==
  AcceptedPasses(BondAdditionPasses(state, fv, allowed_ring_sizes,
                                    allow_bonds_between_rings))

_bond_addition(state, fv, allowed_ring_sizes, allow_bonds_between_rings) ==
  LET passes == BondAdditionPasses(state, fv, allowed_ring_sizes,
                                   allow_bonds_between_rings)
  IN  IF \E c \in passes : c.edit.kind = "raise" THEN Raise("IndexError")
      ELSE Ok({MolToSmiles(c.new_state) : c \in AcceptedPasses(passes)})

\* the decrement amounts of _bond_removal
RemovalAmounts == {1, 2, 3}

\* sorted(smiles.split('.'), key=len): the fragments with the least length (any
\* of them is parts[0]) and the fragment that ends up last (parts[-1]): the
\* longest, and among equally long ones the alphabetically last
Shortest(parts) == {f \in parts : \A g \in parts : SmilesLen(f) <= SmilesLen(g)}
AlphaKey(f) == SumOver(Atoms(f), [a \in Atoms(f) |-> LabelCode(f.lab[a])])
LastPart(parts) ==
  LET longest == {f \in parts : \A g \in parts : SmilesLen(g) <= SmilesLen(f)}
  IN  CHOOSE f \in longest : \A g \in longest : AlphaKey(g) <= AlphaKey(f)

\* the test of the fragment rule: one fragment, or a first fragment of length 1
KeepsLastPart(parts) ==
  \/ Cardinality(parts) = 1
  \/ \E f \in Shortest(parts) : SmilesLen(f) = 1

\* one pass of the loop body of _bond_removal for an existing bond and an
\* amount: "skip", "reduce" (order lowered) or "remove" (bond removed), with the
\* edited graph before sanitization
BondRemovalEdit(state, valence, b) ==
  LET bond == CHOOSE e \in GetBondBetweenAtoms(state, b.a, b.b) : TRUE
      new_state == Kekulize(state)
  IN  IF ReadBondType(bond) \notin Range(bond_orders)
      THEN [kind |-> "skip", new_state |-> state]
      ELSE LET bond_order == bond_orders_index(ReadBondType(bond)) - valence
           IN  IF bond_order > 0
               THEN [kind |-> "reduce",
                     new_state |-> ReplaceBond(new_state, bond, bond_orders[bond_order])]
               ELSE IF bond_order = 0
               THEN [kind |-> "remove", new_state |-> RemoveBond(new_state, bond.a, bond.b)]
               ELSE [kind |-> "skip", new_state |-> state]

\* every pass of the two loops of _bond_removal
BondRemovalPasses(state) ==
  {[valence |-> x[1], bond |-> x[2], edit |-> BondRemovalEdit(state, x[1], x[2])] :
     x \in RemovalAmounts \X state.bonds}

\* the passes of _bond_removal that add an action, with the graph they add
RemovalActions(passes) ==
  LET ok == {p \in passes : p.edit.kind # "skip" /\ ~SanitizeFails(p.edit.new_state)}
      reduced == {[valence |-> p.valence, bond |-> p.bond, kind |-> "reduce",
                   nparts |-> 1, action |-> Sanitized(p.edit.new_state)] :
                    p \in {q \in ok : q.edit.kind = "reduce"}}
      split == {[valence |-> p.valence, bond |-> p.bond,
                 parts |-> Fragments(Sanitized(p.edit.new_state))] :
                  p \in {q \in ok : q.edit.kind = "remove"}}
      removed == {[valence |-> p.valence, bond |-> p.bond, kind |-> "remove",
                   nparts |-> Cardinality(p.parts), action |-> LastPart(p.parts)] :
                    p \in {q \in split : KeepsLastPart(q.parts)}}
  IN  reduced \cup removed
BondRemovalAccepted(state) == RemovalActions(BondRemovalPasses(state))

_bond_removal(state) == {MolToSmiles(c.action) : c \in BondRemovalAccepted(state)}

\* raise ValueError('Received invalid state: %s' & state): the operand of raise
\* applies & to two strings, which raises TypeError before any ValueError exists
RaiseInvalidState(state) == Raise("TypeError")

\* valid_actions of get_valid_actions: the union of what _atom_addition (aa) and
\* _bond_addition (ba) returned, of _bond_removal and of the state itself; the
\* exception when a family raised
valid_actions(aa, ba, mol, allow_removal, allow_no_modification) ==
  IF aa.err # "" THEN aa
  ELSE IF ba.err # "" THEN ba
  ELSE Ok(aa.val \cup ba.val
          \cup (IF allow_removal THEN _bond_removal(mol) ELSE {})
          \cup (IF allow_no_modification THEN {MolToSmiles(mol)} ELSE {}))

\* get_valid_actions from the free-valence map fv on: the calls of the families
ValidActionsWithLevels(mol, fv, atom_types, allow_removal, allow_no_modification, allowed_ring_sizes, allow_bonds_between_rings) ==
  valid_actions(_atom_addition(mol, atom_types, fv),
                _bond_addition(mol, fv, allowed_ring_sizes, allow_bonds_between_rings),
                mol, allow_removal, allow_no_modification)

\* get_valid_actions from the parsed molecule on
ValidActionsOfMol(mol, atom_types, allow_removal, allow_no_modification, allowed_ring_sizes, allow_bonds_between_rings) ==
  ValidActionsWithLevels(mol, atoms_with_free_valence(mol, atom_types), atom_types,
                         allow_removal, allow_no_modification, allowed_ring_sizes,
                         allow_bonds_between_rings)

\* get_valid_actions from the parse on: parsed is what Chem.MolFromSmiles gave
ValidActionsOfParse(parsed, state, atom_types, allow_removal, allow_no_modification, allowed_ring_sizes, allow_bonds_between_rings) ==
  IF parsed = {} THEN RaiseInvalidState(state)
  ELSE ValidActionsOfMol(CHOOSE m \in parsed : TRUE, atom_types, allow_removal,
                         allow_no_modification, allowed_ring_sizes,
                         allow_bonds_between_rings)

\* get_valid_actions of the module: the action set of a state, or the exception
get_valid_actions(state, atom_types, allow_removal, allow_no_modification, allowed_ring_sizes, allow_bonds_between_rings) ==
  IF state = EmptyMol THEN Ok({AtomState(t) : t \in atom_types})
  ELSE ValidActionsOfParse(MolFromSmiles(state), state, atom_types, allow_removal,
                           allow_no_modification, allowed_ring_sizes,
                           allow_bonds_between_rings)

\* ------------------------------------------------ the Molecule environment
VARIABLES
  atom_types, init_mol, allow_removal, allow_no_modification,
  allow_bonds_between_rings, allowed_ring_sizes, max_steps, target_fn,
  record_path,                       \* the constructor's arguments
  _state, _valid_actions, _counter, _path,   \* the fields the methods change
  last,                              \* the last call and how it ended
  mol, accepted                      \* the enumerator's input and what a family accepted

config == <<atom_types, init_mol, allow_removal, allow_no_modification,
            allow_bonds_between_rings, allowed_ring_sizes, max_steps, target_fn,
            record_path>>
fields == <<_state, _valid_actions, _counter, _path>>
vars == <<config, fields, last, mol, accepted>>

\* inputs of the environment
AtomTypeSets == {{"C"}, {"O"}}
InitMols == {EmptyMol, AtomState("C")}
TargetFns == {"None", "HasMultipleBond"}
CC == [lab |-> <<"C", "C">>, bonds |-> {Bond(1, 2, SINGLE)}]
BadState == AtomState("?")
ExplicitStates == {CC, BadState}
ActionProbes == {AtomState("C"), CC}

EpisodeTerminated == "ValueError: This episode is terminated."
InvalidAction == "ValueError: Invalid action."

\* target_fn(state): the goal predicates of the model
TargetHolds(fn, state) ==
  IF fn = "HasMultipleBond" THEN \E e \in state.bonds : e.type # SINGLE ELSE FALSE

_goal_reached(state) == IF target_fn = "None" THEN FALSE ELSE TargetHolds(target_fn, state)

\* the termination test of step
Terminated(counter, state) == counter >= max_steps \/ _goal_reached(state)

\* self._valid_actions = get_valid_actions(...): the assignment happens only when
\* the call r returned
AssignValidActions(r, cache) ==
  [ret |-> r, cache |-> IF r.err = "" THEN r.val ELSE cache]

\* Molecule.get_valid_actions(state, force_rebuild) called with the fields
\* (cur, cache): what it returns or raises, and the cache it leaves
MethodGetValidActions(state, force_rebuild, cur, cache) ==
  IF state = EmptyMol /\ cache # {} /\ ~force_rebuild
  THEN [ret |-> Ok(cache), cache |-> cache]
  ELSE AssignValidActions(get_valid_actions(IF state = EmptyMol THEN cur ELSE state,
                                            atom_types, allow_removal,
                                            allow_no_modification, allowed_ring_sizes,
                                            allow_bonds_between_rings),
                          cache)

MDPInit ==
  /\ atom_types \in AtomTypeSets
  /\ init_mol \in InitMols
  /\ allow_removal \in BOOLEAN
  /\ allow_no_modification = TRUE
  /\ allow_bonds_between_rings = TRUE
  /\ allowed_ring_sizes = NoRingSizes
  /\ max_steps \in 1..MaxSteps
  /\ target_fn \in TargetFns
  /\ record_path \in BOOLEAN
  /\ _state = EmptyMol
  /\ _valid_actions = {}
  /\ _counter = max_steps
  /\ _path = <<>>
  /\ last = [op |-> "init", in_cache |-> FALSE, err |-> "", terminated |-> FALSE]
  /\ mol = EmptyMol
  /\ accepted = [family |-> "none"]

\* the path initialize leaves
InitializePath == IF record_path THEN <<init_mol>> ELSE _path

\* Molecule.initialize, r being its call of self.get_valid_actions
InitializeWith(r) ==
  /\ _state' = init_mol
  /\ _path' = InitializePath
  /\ _valid_actions' = r.cache
  /\ _counter' = IF r.ret.err = "" THEN 0 ELSE _counter
  /\ last' = [op |-> "initialize", in_cache |-> FALSE, err |-> r.ret.err,
              terminated |-> FALSE]
  /\ UNCHANGED <<config, mol, accepted>>

\* Molecule.initialize
Initialize ==
  InitializeWith(MethodGetValidActions(EmptyMol, TRUE, init_mol, _valid_actions))

\* what a user's call of Molecule.get_valid_actions leaves, r being the call
GetValidActionsWith(r) ==
  /\ _valid_actions' = r.cache
  /\ last' = [op |-> "get_valid_actions", in_cache |-> FALSE, err |-> r.ret.err,
              terminated |-> FALSE]
  /\ UNCHANGED <<config, _state, _counter, _path, mol, accepted>>

\* Molecule.get_valid_actions(state, force_rebuild) called by the user
GetValidActions(state, force_rebuild) ==
  GetValidActionsWith(MethodGetValidActions(state, force_rebuild, _state, _valid_actions))

\* StepError without the goal test
StepErrorCounterOnly(action) ==
  IF _counter >= max_steps THEN EpisodeTerminated
  ELSE IF action \notin _valid_actions THEN InvalidAction
  ELSE ""

\* StepError without the membership test
StepErrorNoMembership(action) ==
  IF Terminated(_counter, _state) THEN EpisodeTerminated ELSE ""

\* the two checks step makes before it consumes the action: the error it
\* raises, "" when it goes on
StepError(action) ==
  IF Terminated(_counter, _state) THEN EpisodeTerminated
  ELSE IF action \notin _valid_actions THEN InvalidAction
  ELSE ""

\* the path after step has committed the action
StepPath(action) == IF record_path THEN Append(_path, action) ELSE _path

\* Molecule.step(action), e being the outcome of its two checks and r its call
\* of self.get_valid_actions once the action is committed
StepWith(action, e, r) ==
  IF e # ""
  THEN /\ last' = [op |-> "step", in_cache |-> action \in _valid_actions,
                   err |-> e, terminated |-> FALSE]
       /\ UNCHANGED <<config, fields, mol, accepted>>
  ELSE /\ _state' = action
       /\ _path' = StepPath(action)
       /\ _valid_actions' = r.cache
       /\ _counter' = IF r.ret.err = "" THEN _counter + 1 ELSE _counter
       /\ last' = [op |-> "step", in_cache |-> action \in _valid_actions,
                   err |-> r.ret.err,
                   terminated |-> r.ret.err = "" /\ Terminated(_counter + 1, action)]
       /\ UNCHANGED <<config, mol, accepted>>

\* Molecule.step(action)
Step(action) ==
  StepWith(action, StepError(action),
           MethodGetValidActions(EmptyMol, TRUE, action, _valid_actions))

\* the path a run of the model may record, and the states it may commit
MaxPath == MaxSteps + 2

Next ==
  \/ Initialize
  \/ \E s \in ExplicitStates \cup {EmptyMol}, f \in BOOLEAN : GetValidActions(s, f)
  \/ \E a \in _valid_actions \cup ActionProbes :
       /\ NumAtoms(a) <= MaxAtoms
       /\ Len(_path) < MaxPath
       /\ Step(a)

Spec == MDPInit /\ [][Next]_vars

\* --------------------------------------------- the enumerator on its own
\* inputs of the enumerator: chains and rings of up to MaxChain atoms, two
\* separate atoms, and a string that does not parse
PathMol(ls, os) == [lab |-> ls, bonds |-> {Bond(i, i + 1, os[i]) : i \in 1..Len(os)}]
RingMol(ls, os) ==
  [lab |-> ls, bonds |-> {Bond(i, (i % Len(ls)) + 1, os[i]) : i \in 1..Len(os)}]

EndLabels == {"C", "O", "Cl"}
ChainLabels(n, first, lastl) ==
  [i \in 1..n |-> IF i = 1 THEN first ELSE IF i = n THEN lastl ELSE "C"]
\* bond orders of a chain: all single, but the bond at position k has order o
ChainOrders(n, k, o) == [i \in 1..(n - 1) |-> IF i = k THEN o ELSE SINGLE]
ChainInputs ==
  {AtomState(l) : l \in EndLabels}
  \cup {PathMol(ChainLabels(x[1], x[2], x[3]), ChainOrders(x[1], x[4], x[5])) :
          x \in {y \in (2..MaxChain) \X EndLabels \X EndLabels \X (1..MaxChain)
                       \X {SINGLE, DOUBLE, TRIPLE} : y[4] < y[1]}}
\* bond orders of a ring: double bonds at the even positions below n (k = 0), at
\* the odd positions (k = 1), or nowhere (k = 2)
RingOrders(n, k) ==
  [i \in 1..n |-> IF k = 0 /\ i % 2 = 0 /\ i < n THEN DOUBLE
                  ELSE IF k = 1 /\ i % 2 = 1 THEN DOUBLE ELSE SINGLE]
RingInputs ==
  {RingMol(ChainLabels(x[1], x[2], "C"), RingOrders(x[1], x[3])) :
     x \in (3..MaxChain) \X {"C", "O"} \X {0, 1, 2}}
TwoAtoms == [lab |-> <<"C", "C">>, bonds |-> {}]
EnumInputs ==
  {m \in ChainInputs \cup RingInputs : ValenceOk(m)} \cup {TwoAtoms, BadState}

EnumAtomTypeSets == {{"C"}, {"O"}, {"C", "Cl"}, {"C", "S"}}
RingSizeSets == {NoRingSizes, {5, 6}, {3, 4}}

EnumInit ==
  /\ atom_types = {"C"}
  /\ init_mol = EmptyMol
  /\ allow_removal = TRUE
  /\ allow_no_modification = TRUE
  /\ allow_bonds_between_rings = TRUE
  /\ allowed_ring_sizes = NoRingSizes
  /\ max_steps = 1
  /\ target_fn = "None"
  /\ record_path = FALSE
  /\ _state = EmptyMol
  /\ _valid_actions = {}
  /\ _counter = max_steps
  /\ _path = <<>>
  /\ last = [op |-> "init", in_cache |-> FALSE, err |-> "", terminated |-> FALSE]
  /\ mol \in EnumInputs
  /\ accepted = [family |-> "none"]

\* the graph the enumerator works on: the parsed input
Parsed == CHOOSE m \in MolFromSmiles(mol) : TRUE

\* _atom_addition called as get_valid_actions calls it
CallAtomAddition(types) ==
  /\ accepted.family = "none"
  /\ MolFromSmiles(mol) # {}
  /\ LET fv == atoms_with_free_valence(Parsed, types)
         r == _atom_addition(Parsed, types, fv)
     IN  accepted' = [family |-> "atom_addition", atom_types |-> types, err |-> r.err,
                      out |-> AtomAdditionAccepted(Parsed, types, fv),
                      actions |-> r.val]
  /\ UNCHANGED <<config, fields, last, mol>>

\* _bond_addition called as get_valid_actions calls it
CallBondAddition(types, ring_sizes, between_rings) ==
  /\ accepted.family = "none"
  /\ MolFromSmiles(mol) # {}
  /\ LET fv == atoms_with_free_valence(Parsed, types)
         r == _bond_addition(Parsed, fv, ring_sizes, between_rings)
     IN  accepted' = [family |-> "bond_addition", atom_types |-> types,
                      allowed_ring_sizes |-> ring_sizes,
                      allow_bonds_between_rings |-> between_rings, err |-> r.err,
                      passes |-> BondAdditionPasses(Parsed, fv, ring_sizes, between_rings),
                      out |-> BondAdditionAccepted(Parsed, fv, ring_sizes, between_rings),
                      actions |-> r.val]
  /\ UNCHANGED <<config, fields, last, mol>>

\* _bond_removal called as get_valid_actions calls it
CallBondRemoval ==
  /\ accepted.family = "none"
  /\ MolFromSmiles(mol) # {}
  /\ accepted' = [family |-> "bond_removal", err |-> "",
                  passes |-> BondRemovalPasses(Parsed),
                  out |-> BondRemovalAccepted(Parsed),
                  actions |-> _bond_removal(Parsed)]
  /\ UNCHANGED <<config, fields, last, mol>>

\* get_valid_actions of the module called on the input string
CallGetValidActions(types, removal, no_modification) ==
  /\ accepted.family = "none"
  /\ LET r == get_valid_actions(mol, types, removal, no_modification, NoRingSizes, TRUE)
     IN  accepted' = [family |-> "get_valid_actions", atom_types |-> types,
                      allow_removal |-> removal,
                      allow_no_modification |-> no_modification,
                      err |-> r.err, actions |-> r.val]
  /\ UNCHANGED <<config, fields, last, mol>>

EnumNext ==
  \/ \E t \in EnumAtomTypeSets : CallAtomAddition(t)
  \/ \E t \in EnumAtomTypeSets, rs \in RingSizeSets, br \in BOOLEAN :
       CallBondAddition(t, rs, br)
  \/ CallBondRemoval
  \/ \E t \in EnumAtomTypeSets, rm \in BOOLEAN, nm \in BOOLEAN :
       CallGetValidActions(t, rm, nm)

EnumSpec == EnumInit /\ [][EnumNext]_vars

\* ----------------------------------------------------------------- claims
\* the episode is over: the counter has reached max_steps or the goal holds
EpisodeOver ==
  _counter >= max_steps \/ (target_fn # "None" /\ TargetHolds(target_fn, _state))

\* the enumerator's answer for the environment's current state
CurrentEnumeration ==
  get_valid_actions(_state, atom_types, allow_removal, allow_no_modification,
                    allowed_ring_sizes, allow_bonds_between_rings)

\* C1: in an episode that is not over, the cached action space that step reads
\* is the enumeration of the current state (whenever that enumeration exists).
C1_CacheIsCurrentEnumeration ==
  (~EpisodeOver /\ CurrentEnumeration.err = "")
    => _valid_actions = CurrentEnumeration.val

\* C2: once the episode is over, every call other than initialize leaves state,
\* counter and path alone and the episode over, and every step fails with the
\* episode-terminated error and leaves the cache alone too.
C2_TerminationSticky ==
  [][(EpisodeOver /\ last'.op # "initialize")
       => /\ UNCHANGED <<_state, _counter, _path>>
          /\ EpisodeOver'
          /\ (last'.op = "step"
                => last'.err = EpisodeTerminated /\ UNCHANGED _valid_actions)]_vars

\* a step with a legal action was refused because the goal holds, below max_steps
C2_Witness ==
  /\ last.op = "step" /\ last.err = EpisodeTerminated /\ last.in_cache
  /\ _counter < max_steps

\* C3: in an episode that is not over, a step with an action outside the cached
\* action space (what get_valid_actions() returns) fails with the invalid-action
\* error and changes no field.
C3_InvalidActionRejected ==
  [][(last'.op = "step" /\ ~EpisodeOver /\ ~last'.in_cache)
       => (last'.err = InvalidAction /\ UNCHANGED fields)]_vars

\* an action outside the cache was refused in the middle of an episode
C3_Witness ==
  /\ last.op = "step" /\ last.err = InvalidAction /\ ~last.in_cache
  /\ ~EpisodeOver /\ _counter > 0

\* C4: with init_mol = None and no goal, initialize gives counter 0 and the
\* action space atom_types; every legal step of a running episode succeeds and
\* reports terminated exactly when the counter has reached max_steps; a step is
\* refused as terminated only at max_steps; the counter stays in 0..max_steps.
C4_Lifecycle ==
  (init_mol = EmptyMol /\ target_fn = "None")
    => /\ last.op = "initialize"
            => /\ last.err = "" /\ _counter = 0
               /\ _valid_actions = {AtomState(t) : t \in atom_types}
       /\ (last.op = "step" /\ last.in_cache /\ last.err # EpisodeTerminated)
            => (last.err = "" /\ last.terminated = (_counter = max_steps))
       /\ (last.op = "step" /\ last.err = EpisodeTerminated) => _counter = max_steps
       /\ 0 <= _counter /\ _counter <= max_steps

\* the enumeration of init_mol that initialize asks for returns a set
InitializeSucceeds ==
  get_valid_actions(init_mol, atom_types, allow_removal, allow_no_modification,
                    allowed_ring_sizes, allow_bonds_between_rings).err = ""

\* C5: with record_path, once initialize has run (and its enumeration of init_mol
\* succeeds), the path holds the initial state and one state per successful
\* step (the counter counts them) and ends with the current state; without
\* record_path it stays empty.
C5_PathRecording ==
  /\ ~record_path => _path = <<>>
  /\ (record_path /\ _path # <<>> /\ InitializeSucceeds)
       => /\ Len(_path) = _counter + 1
          /\ _path[1] = init_mol
          /\ _path[Len(_path)] = _state

\* C6: the enumerator returns a set for every non-empty state that parses and
\* every non-empty atom_types.
C6_EnumeratorNeverRaises ==
  (accepted.family = "get_valid_actions" /\ mol # EmptyMol /\ MolFromSmiles(mol) # {})
    => accepted.err = ""

\* the removal of bond e from the connected input: the two sides it leaves
SideOf(e, a) == Reach(WithoutBond(Kekulize(Parsed), e), {a})
RemovedWhole(e) ==
  {c \in accepted.out : c.bond = e /\ c.kind = "remove"}

\* C7: removing a bond of a connected graph entirely keeps the whole graph when
\* it stays connected, adds nothing when both sides have more than one atom, and
\* keeps the larger side when the smaller side is a single atom.
C7_FragmentPruning ==
  (accepted.family = "bond_removal" /\ Cardinality(Fragments(Parsed)) = 1)
    => \A e \in {x \in Parsed.bonds : x.type \in {SINGLE, DOUBLE, TRIPLE}} :
         LET sa == SideOf(e, e.a)
             sb == SideOf(e, e.b)
             cut == Sanitized(WithoutBond(Kekulize(Parsed), e))
         IN  IF e.b \in sa
             THEN \E c \in RemovedWhole(e) : c.action = cut
             ELSE IF Cardinality(sa) > 1 /\ Cardinality(sb) > 1
             THEN RemovedWhole(e) = {}
             ELSE \E c \in RemovedWhole(e), side \in {sa, sb} :
                    /\ Cardinality(side) >= Cardinality(sa)
                    /\ Cardinality(side) >= Cardinality(sb)
                    /\ c.action = SubMol(cut, side)

\* the size of the smallest ring of m through the bond between a1 and a2, 0 when
\* the bond is on no ring
SmallestRingThrough(m, a1, a2) ==
  LET rings == {S \in SUBSET m.bonds :
                  (\E e \in S : e.a = a1 /\ e.b = a2) /\ IsCycle(S)}
  IN  IF rings = {} THEN 0 ELSE Min({Cardinality(S) : S \in rings})

\* C8: an accepted new bond between unbonded atoms never joins two ring atoms
\* when bonds between rings are not allowed, and when ring sizes are restricted
\* it closes a ring whose size is an allowed one.
C8_RingConstraints ==
  accepted.family = "bond_addition"
    => \A c \in {x \in accepted.out : ~x.existing} :
         /\ ~accepted.allow_bonds_between_rings
              => ~(IsInRing(Parsed, c.atom1) /\ IsInRing(Parsed, c.atom2))
         /\ accepted.allowed_ring_sizes # NoRingSizes
              => SmallestRingThrough(c.new_state, c.atom1, c.atom2)
                   \in accepted.allowed_ring_sizes

\* with ring sizes {5, 6} and no bonds between rings, a ring was closed and
\* another pair was refused
C8_Witness ==
  /\ accepted.family = "bond_addition"
  /\ accepted.allowed_ring_sizes = {5, 6} /\ ~accepted.allow_bonds_between_rings
  /\ \E c \in accepted.out : ~c.existing
  /\ \E p \in accepted.passes :
       /\ GetBondBetweenAtoms(Parsed, p.atom1, p.atom2) = {}
       /\ p.edit.kind = "skip"

\* the error the enumerator is meant to raise for a state that does not parse
InvalidStateError == "ValueError: Received invalid state"

\* C9: a non-empty state that does not parse makes the enumerator fail with the
\* error that carries 'Received invalid state'.
C9_InvalidStateError ==
  (accepted.family = "get_valid_actions" /\ mol # EmptyMol /\ MolFromSmiles(mol) = {})
    => accepted.err = InvalidStateError

\* what a pass does to the bond it found, when the order it computes with is t
AdditionFollows(p, t) ==
  IF t + p.valence <= TRIPLE
  THEN /\ p.edit.kind = "edit"
       /\ p.edit.new_state.bonds =
            {x \in Kekulize(Parsed).bonds : ~(x.a = p.atom1 /\ x.b = p.atom2)}
            \cup {Bond(p.atom1, p.atom2, t + p.valence)}
  ELSE p.edit.kind = "skip"
RemovalFollows(p, t) ==
  IF t - p.valence > 0
  THEN /\ p.edit.kind = "reduce"
       /\ p.edit.new_state.bonds =
            {x \in Kekulize(Parsed).bonds : ~(x.a = p.bond.a /\ x.b = p.bond.b)}
            \cup {Bond(p.bond.a, p.bond.b, t - p.valence)}
  ELSE IF t - p.valence = 0
  THEN /\ p.edit.kind = "remove"
       /\ p.edit.new_state.bonds =
            {x \in Kekulize(Parsed).bonds : ~(x.a = p.bond.a /\ x.b = p.bond.b)}
  ELSE p.edit.kind = "skip"
ExistingBond(a1, a2) == CHOOSE e \in GetBondBetweenAtoms(Parsed, a1, a2) : TRUE

\* C10 as stated: the arithmetic of bond addition and bond removal uses the
\* order an existing bond has after kekulization, aromatic bonds included.
C10_KekulizedOrderUsed ==
  /\ accepted.family = "bond_addition"
       => \A p \in accepted.passes :
            GetBondBetweenAtoms(Parsed, p.atom1, p.atom2) # {}
              => AdditionFollows(p, ExistingBond(p.atom1, p.atom2).kek)
  /\ accepted.family = "bond_removal"
       => \A p \in accepted.passes : RemovalFollows(p, p.bond.kek)

\* C10 amended: the order is read from the state as parsed, so a bond that is
\* aromatic there is skipped by bond addition and by bond removal; a single,
\* double or triple bond is raised or lowered by the amount within the triple
\* limit, in a copy whose other aromatic bonds are kekulized.
C10_AromaticBondsSkipped ==
  /\ accepted.family = "bond_addition"
       => \A p \in accepted.passes :
            GetBondBetweenAtoms(Parsed, p.atom1, p.atom2) # {}
              => IF ExistingBond(p.atom1, p.atom2).type = AROMATIC
                 THEN p.edit.kind = "skip"
                 ELSE AdditionFollows(p, ExistingBond(p.atom1, p.atom2).type)
  /\ accepted.family = "bond_removal"
       => \A p \in accepted.passes :
            IF p.bond.type = AROMATIC THEN p.edit.kind = "skip"
            ELSE RemovalFollows(p, p.bond.type)

\* bond addition met an aromatic bond between two atoms with free valence
C10_Witness ==
  /\ accepted.family = "bond_addition"
  /\ \E p \in accepted.passes :
       /\ GetBondBetweenAtoms(Parsed, p.atom1, p.atom2) # {}
       /\ ExistingBond(p.atom1, p.atom2).type = AROMATIC

====
